---- MODULE Spec2Model ----
(***************************************************************************)
(* A model of the silt runtime's value-representation layer:               *)
(*   - silt::Value and its witness table (Runtime/Box.h, Runtime/Box.cpp)  *)
(*   - silt::ManagedObject and the empty-box singleton (Ferrite)           *)
(*   - silt_alloc / silt_dealloc / silt::crash (Ferrite)                   *)
(***************************************************************************)
EXTENDS Integers, Sequences, FiniteSets, TLC

(***************************************************************************)
(* Bounds                                                                  *)
(***************************************************************************)
\* number of Value handles a run may create (handles are never reused)
NumValues == 3
\* number of ManagedObject instances a run may construct
NumBoxes == 3
\* number of heap blocks silt_alloc may hand out in a run
NumBlocks == 3
\* number of times a run may call silt_allocEmptyBox
MaxAcquire == 2
MaxCalls == 2
NumUnchecked == 2

Slots == 1..NumValues
Regions == 1..NumValues
Blocks == 1..NumBlocks

(***************************************************************************)
(* Type metadata and witness tables                                        *)
(***************************************************************************)
\* the "pair of 8-byte integers" type and the "counted handle" type
PairMetadata == [name |-> "Pair", sizeInBytes |-> 16]
HandleMetadata == [name |-> "Handle", sizeInBytes |-> 8]

(***************************************************************************)
(* Storage: a caller-supplied buffer is RegionLen bytes                    *)
(***************************************************************************)
RegionLen == PairMetadata.sizeInBytes
WordLen == HandleMetadata.sizeInBytes
Byte == 0..255
\* the contents of a buffer nobody has written yet
Garbage == [i \in 1..RegionLen |-> 170]

\* byte i (1 = least significant) of the integer n
RECURSIVE ByteOf(_, _)
ByteOf(n, i) == IF i = 1 THEN n % 256 ELSE ByteOf(n \div 256, i - 1)

\* the little-endian bytes of an 8-byte integer
Encode64(n) == [i \in 1..WordLen |-> ByteOf(n, i)]

\* the 8 bytes at byte offset off of a buffer are the integer n
Holds64(bytes, off, n) == \A i \in 1..WordLen : bytes[off + i] = ByteOf(n, i)

\* a pair of 8-byte integers, laid out in 16 bytes
EncodePair(a, b) == Encode64(a) \o Encode64(b)
\* the 16 bytes of a buffer decode to the pair p
HoldsPair(bytes, p) == Holds64(bytes, 0, p[1]) /\ Holds64(bytes, WordLen, p[2])

\* an 8-byte handle at the start of a buffer, the rest untouched
WriteWord(bytes, n) ==
  [i \in 1..RegionLen |-> IF i <= WordLen THEN Encode64(n)[i] ELSE bytes[i]]

\* struct WitnessTable with the shared trivial implementations
TrivialTable ==
  [copy |-> "trivialCopy", move |-> "trivialMove", destroy |-> "trivialDestroy"]
\* struct WitnessTable of the "counted handle" type
CountedTable ==
  [copy |-> "countedCopy", move |-> "countedMove", destroy |-> "countedDestroy"]

\* the registered (descriptor, table) pairs
Types ==
  { [metadata |-> PairMetadata, table |-> TrivialTable],
    [metadata |-> HandleMetadata, table |-> CountedTable] }

\* the pair payloads a caller stores
PairPayloads == { <<3, 4>>, <<5, 6>> }
\* the handle a caller stores for the resource acquired for slot v
HandleOf(v) == 100 + v

NoValue == [alloc |-> "none", typeMetadata |-> PairMetadata,
            witnessTable |-> TrivialTable, value |-> 0]

VARIABLES
  values,        \* slot -> the silt::Value object at that handle
  mem,           \* region -> its bytes
  counter,       \* the shared external counter of the counted-handle type
  halted,        \* the process has terminated abnormally
  destroyTraps,  \* what this build does when trivialDestroy flows off its end
  trace,         \* witness-table invocations made by the last call, in order
  destroyCalls,  \* slot -> number of destroy invocations on that Value
  last,          \* the last boundary call and its arguments
  ret,           \* what the last boundary call returned
  life,          \* slot -> the caller's view of the Value's lifecycle
  expected,      \* slot -> the pair the Value was initialised with
  route,         \* slot -> the copies and moves its payload came through
  decs,          \* slot -> counter decrements charged to its payload so far
  supplied,      \* slot -> what the caller constructed the Value from
  calls,         \* number of calls made outside the preconditions
  boxes,         \* address -> the ManagedObject<void> at that address
  payloads,      \* value pointer -> the object it points to
  boxLife,       \* address -> the caller's view of the box's lifecycle
  acquired,      \* the handles silt_allocEmptyBox has returned, in call order
  origin,        \* address -> the box it was copied from, if it is a copy
  heap,          \* block -> whether malloc has handed it out, and its size
  stderr         \* what has been written to the diagnostic stream

valueVars == <<values, mem, counter, destroyCalls, life, expected, route, decs,
               supplied>>
boxVars == <<boxes, payloads, boxLife, acquired, origin>>
heapVars == <<heap, stderr>>
vars == <<values, mem, counter, halted, destroyTraps, trace, destroyCalls,
          last, ret, life, expected, route, decs, boxes, payloads, boxLife,
          acquired, origin, heap, stderr, supplied, calls>>


\* what a call hands back: nothing (it did not return), void, or a pointer
\* the arguments of a construction, as the caller gave them
Supplied(type, storage) ==
  [typeMetadata |-> type.metadata, witnessTable |-> type.table,
   storage |-> storage]
NotSupplied == [typeMetadata |-> NoValue.typeMetadata,
                witnessTable |-> NoValue.witnessTable, storage |-> 0]

NoReturn == [kind |-> "none", val |-> 0]
Void == [kind |-> "void", val |-> 0]
Ptr(p) == [kind |-> "ptr", val |-> p]

(***************************************************************************)
(* The state one call reads and writes while it runs                       *)
(***************************************************************************)
Cur ==
  [values |-> values, mem |-> mem, counter |-> counter, halted |-> halted,
   trace |-> <<>>, destroyCalls |-> destroyCalls]

\* record one invocation through a witness-table slot
Invoked(s, slot, dst, src) ==
  [s EXCEPT !.trace = Append(@, [op |-> slot, dst |-> dst, src |-> src])]

\* record one invocation of the function fn held in a witness-table slot
InvokedFn(s, slot, fn, dst, src) ==
  [s EXCEPT !.trace =
     Append(@, [op |-> slot, dst |-> dst, src |-> src, fn |-> fn])]

\* abnormal termination of the process (a trap, or a write through a pointer
\* that addresses no buffer)
Trap(s) == [s EXCEPT !.halted = TRUE]

\* memcpy(d, sp, n): the first n bytes of buffer d become those of buffer sp
memcpy(s, d, sp, n) ==
  IF d \notin Regions \/ sp \notin Regions
  THEN Trap(s)
  ELSE [s EXCEPT !.mem[d] =
          [i \in 1..RegionLen |-> IF i <= n THEN s.mem[sp][i] ELSE @[i]]]

(***************************************************************************)
(* Runtime/src/Box.cpp: the trivial witnesses                              *)
(***************************************************************************)
\* void *trivialDestroy(Value *value) { }  -- no return statement in a
\* function returning void *: the build either returns or traps
trivialDestroy(s, v) == IF destroyTraps THEN Trap(s) ELSE s

\* the counted-handle type: destroy decrements the shared counter
countedDestroy(s, v) == [s EXCEPT !.counter = @ - 1]

CallDestroy(s, fn, v) ==
  CASE fn = "trivialDestroy" -> trivialDestroy(s, v)
    [] fn = "countedDestroy" -> countedDestroy(s, v)

\* a destroy that asserts the Value has not been destroyed before
Value_destroy_checked(s, this) ==
  IF s.halted THEN s
  ELSE IF s.destroyCalls[this] > 0 THEN Trap(s)
  ELSE CallDestroy(
         [InvokedFn(s, "destroy", values[this].witnessTable.destroy, this, this)
            EXCEPT !.destroyCalls[this] = @ + 1],
         values[this].witnessTable.destroy, this)

\* void Value::destroy() { witnessTable.destroy(this); }
Value_destroy(s, this) ==
  IF s.halted THEN s
  ELSE CallDestroy(
         [InvokedFn(s, "destroy", values[this].witnessTable.destroy, this, this)
            EXCEPT !.destroyCalls[this] = @ + 1],
         values[this].witnessTable.destroy, this)

\* a trivial copy that also destroys its source, as trivialMove does
trivialCopy_destroysSource(s, dst, src) ==
  LET size == values[dst].typeMetadata.sizeInBytes
  IN Value_destroy(memcpy(s, values[dst].value, values[src].value, size), src)

\* a trivial copy that copies one word whatever the size of the type
trivialCopy_oneWord(s, dst, src) ==
  memcpy(s, values[dst].value, values[src].value, WordLen)

trivialCopy(s, dst, src) ==
  LET size == values[dst].typeMetadata.sizeInBytes
  IN memcpy(s, values[dst].value, values[src].value, size)

trivialMove(s, dst, src) ==
  LET size == values[dst].typeMetadata.sizeInBytes
  IN Value_destroy(memcpy(s, values[dst].value, values[src].value, size), src)

\* the counted-handle type: copy acquires a resource of its own for dst
countedCopy(s, dst, src) ==
  IF values[dst].value \notin Regions THEN Trap(s)
  ELSE [s EXCEPT !.mem[values[dst].value] = WriteWord(@, HandleOf(dst)),
                 !.counter = @ + 1]

\* the counted-handle type: move hands the handle over to dst
countedMove(s, dst, src) ==
  memcpy(s, values[dst].value, values[src].value,
         values[dst].typeMetadata.sizeInBytes)

\* SiltCopyFunction and SiltMoveFunction are one type: void *(Value *, Value *)
CallCopy(s, fn, dst, src) ==
  CASE fn = "trivialCopy" -> trivialCopy(s, dst, src)
    [] fn = "trivialMove" -> trivialMove(s, dst, src)
    [] fn = "countedCopy" -> countedCopy(s, dst, src)
    [] fn = "countedMove" -> countedMove(s, dst, src)

(***************************************************************************)
(* Runtime/include/silt/Box.h: class Value                                 *)
(***************************************************************************)
\* a constructor that binds the trivial table whatever table it is given
Value_ctor_trivialTable(typeMetadata, witnessTable, indeterminate) ==
  [alloc |-> "heap", typeMetadata |-> typeMetadata,
   witnessTable |-> TrivialTable, value |-> indeterminate]

\* Value(typeMetadata, witnessTable): the member value is not initialised
Value_ctor(typeMetadata, witnessTable, indeterminate) ==
  [alloc |-> "heap", typeMetadata |-> typeMetadata,
   witnessTable |-> witnessTable, value |-> indeterminate]

\* a copy that dispatches through the table of the destination
Value_copy_dstTable(s, this, dst) ==
  IF s.halted THEN s
  ELSE CallCopy(InvokedFn(s, "copy", values[dst].witnessTable.copy, dst, this),
                values[dst].witnessTable.copy, dst, this)

\* void copy(Value *dst) { witnessTable.copy(dst, this); }
Value_copy(s, this, dst) ==
  IF s.halted THEN s
  ELSE CallCopy(InvokedFn(s, "copy", values[this].witnessTable.copy, dst, this),
                values[this].witnessTable.copy, dst, this)

\* void move(Value *dst) { witnessTable.move(dst, this); }
Value_move(s, this, dst) ==
  IF s.halted THEN s
  ELSE CallCopy(InvokedFn(s, "move", values[this].witnessTable.move, dst, this),
                values[this].witnessTable.move, dst, this)

\* void initializeWithCopy(Value *value) { value->copy(this); }
initializeWithCopy(s, this, value) == Value_copy(s, value, this)

\* void initializeWithTake(Value *value) { value->move(this); value->destroy(); }
initializeWithTake(s, this, value) ==
  Value_destroy(Value_move(s, value, this), value)

\* const TypeMetadata *getTypeMetadata() const
getTypeMetadata(this) == values[this].typeMetadata

\* void *getValue() const
getValue(this) == values[this].value

\* const WitnessTable &getWitnessTable() const
getWitnessTable(this) == values[this].witnessTable

\* the registered descriptors, one instance per type; a descriptor pointer
\* is the index of the instance
Descriptors == <<PairMetadata, HandleMetadata>>
DescriptorAddr(md) == CHOOSE i \in 1..Len(Descriptors) : Descriptors[i] = md

(***************************************************************************)
(* Runtime/src/Box.cpp: the boundary functions                             *)
(***************************************************************************)
\* the state and the return value of a call that ran to state s
Returned(s, r) == [state |-> s, ret |-> IF s.halted THEN NoReturn ELSE r]

\* void *silt_copyValue(void *dst, void *src)
silt_copyValue(s, dst, src) == Returned(Value_copy(s, src, dst), Ptr(dst))

\* void *silt_moveValue(void *dst, void *src)
silt_moveValue(s, dst, src) == Returned(Value_move(s, src, dst), Ptr(dst))

\* delete box: the handle is released
delete(s, box) ==
  IF s.halted THEN s
  ELSE [InvokedFn(s, "delete", "delete", box, box)
          EXCEPT !.values[box].alloc = "deleted"]

\* void silt_destroyValue(void *value): box->destroy(); delete box;
\* a silt_destroyValue that releases the handle before it destroys the Value
silt_destroyValue_deletesFirst(s, value) ==
  Returned(Value_destroy(delete(s, value), value), Void)

silt_destroyValue(s, value) ==
  Returned(delete(Value_destroy(s, value), value), Void)

\* void *silt_createValue(void *init, void *value): declared in Box.h, not
\* defined there; a Value of the type bound over the storage init
silt_createValue(init, type, indeterminate) ==
  [Value_ctor(type.metadata, type.table, indeterminate) EXCEPT !.value = init]


(***************************************************************************)
(* Ferrite/include/silt/Ferrite/ManagedObject.h: struct ManagedObject      *)
(***************************************************************************)
\* the two objects of static storage in ManagedObject.cpp
EmptyBoxMetadataAddr == 1
EmptyBoxStorageAddr == 2
StaticBoxes == {EmptyBoxMetadataAddr, EmptyBoxStorageAddr}
BoxSlots == 3..(NumBoxes + 2)
BoxAddrs == StaticBoxes \cup BoxSlots
PayloadIds == 1..NumBoxes

NoBox == [state |-> "none", copyImpl |-> "nullptr", destroyImpl |-> "nullptr",
          metadata |-> "nullptr", value |-> 0]

\* ManagedObject(copyImpl, destroyImpl, metadata, value)
ManagedObject_ctor(copyImpl, destroyImpl, metadata, value) ==
  [state |-> "object", copyImpl |-> copyImpl, destroyImpl |-> destroyImpl,
   metadata |-> metadata, value |-> value]

CurBox == [payloads |-> payloads, trace |-> <<>>, halted |-> halted]

\* the first value pointer no object has been allocated at
NewPayload(s) == CHOOSE p \in PayloadIds :
                   ~s.payloads[p].exists
                     /\ \A q \in 1..(p - 1) : s.payloads[q].exists

\* a copy closure that allocates a value of its own for the copy
freshCopy(s, value) ==
  LET p == NewPayload(s)
  IN [state |-> [s EXCEPT !.payloads[p].exists = TRUE], result |-> p]

\* a copy closure that hands back the pointer it was given
aliasCopy(s, value) == [state |-> s, result |-> value]

\* a destroy closure that releases the value
release(s, value) == [s EXCEPT !.payloads[value].destroys = @ + 1]

\* std::function::operator(): an empty std::function throws
\* std::bad_function_call, which nothing catches
CallCopyImpl(s, fn, value) ==
  CASE fn = "nullptr" -> [state |-> Trap(s), result |-> 0]
    [] fn = "freshCopy" -> freshCopy(s, value)
    [] fn = "aliasCopy" -> aliasCopy(s, value)

CallDestroyImpl(s, fn, value) ==
  CASE fn = "nullptr" -> Trap(s)
    [] fn = "release" -> release(s, value)

\* a copy() that shares the receiver's value instead of calling copyImpl
ManagedObject_copy_sharesValue(s, this) ==
  [state |-> s,
   result |-> ManagedObject_ctor(boxes[this].copyImpl, boxes[this].destroyImpl,
                                 boxes[this].metadata, boxes[this].value)]

\* ManagedObject<T> copy()
ManagedObject_copy(s, this) ==
  LET r == CallCopyImpl(s, boxes[this].copyImpl, boxes[this].value)
      logged == IF r.state.halted THEN r.state
                ELSE Invoked(r.state, "copyImpl", r.result, boxes[this].value)
  IN [state |-> logged,
      result |-> ManagedObject_ctor(boxes[this].copyImpl, boxes[this].destroyImpl,
                                    boxes[this].metadata, r.result)]

\* a destroy() that never calls destroyImpl
ManagedObject_destroy_skipsClosure(s, this) == s

\* void destroy()
ManagedObject_destroy(s, this) ==
  LET r == CallDestroyImpl(s, boxes[this].destroyImpl, boxes[this].value)
  IN IF r.halted THEN r
     ELSE Invoked(r, "destroyImpl", boxes[this].value, boxes[this].value)

(***************************************************************************)
(* Ferrite/src/ManagedObject.cpp                                           *)
(***************************************************************************)
\* silt::OpaqueMetadata _emptyBoxStorageMetadata(nullptr, nullptr, nullptr, nullptr)
EmptyBoxStorageMetadata ==
  ManagedObject_ctor("nullptr", "nullptr", "nullptr", 0)

\* _SiltEmptyBox _EmptyBoxStorage = { _emptyBoxStorageMetadata }
EmptyBoxStorage == EmptyBoxStorageMetadata

\* the first address no ManagedObject has been constructed at
NextBox == CHOOSE b \in BoxSlots :
             boxes[b].state = "none"
               /\ \A c \in BoxSlots : c < b => boxes[c].state # "none"

\* an acquisition that constructs an empty box of its own
silt_allocEmptyBox_allocates(bs) ==
  IF \E b \in BoxSlots : bs[b].state = "none"
  THEN LET b == CHOOSE c \in BoxSlots : bs[c].state = "none"
       IN [boxes |-> [bs EXCEPT ![b] = EmptyBoxStorageMetadata], ret |-> b]
  ELSE [boxes |-> bs, ret |-> EmptyBoxStorageAddr]

\* silt::OpaqueMetadata *silt::silt_allocEmptyBox()
silt_allocEmptyBox(bs) == [boxes |-> bs, ret |-> EmptyBoxStorageAddr]

(***************************************************************************)
(* Ferrite/src/Errors.cpp, Ferrite/src/Heap.cpp                            *)
(***************************************************************************)
CurHeap == [heap |-> heap, stderr |-> stderr, halted |-> halted]

NullPtr == 0

\* a crash that writes the message and comes back to its caller
crash_returns(s, message) ==
  [s EXCEPT !.stderr = Append(Append(@, message), "\n")]

\* void silt::crash(const char *message): fputs, fputc, abort
crash(s, message) ==
  [s EXCEPT !.stderr = Append(Append(@, message), "\n"), !.halted = TRUE]

\* malloc(bytes) handing out block ptr, or failing with ptr = NullPtr
malloc(s, bytes, ptr) ==
  IF ptr = NullPtr THEN s
  ELSE [s EXCEPT !.heap[ptr] = [allocated |-> TRUE, size |-> bytes]]

\* free(value)
free(s, value) ==
  IF value = NullPtr THEN s
  ELSE [s EXCEPT !.heap[value] = [allocated |-> FALSE, size |-> 0]]

\* a silt_alloc that hands back whatever malloc gave it
silt_alloc_unchecked(s, bytes, ptr) ==
  [state |-> malloc(s, bytes, ptr), ret |-> Ptr(ptr)]

\* void *silt_alloc(size_t bytes), with ptr what its call of malloc returns
silt_alloc(s, bytes, ptr) ==
  LET allocated == malloc(s, bytes, ptr)
      checked == IF ptr = NullPtr
                 THEN crash(allocated, "silt_alloc failed to allocate memory")
                 ELSE allocated
  IN [state |-> checked,
      ret |-> IF checked.halted THEN NoReturn ELSE Ptr(ptr)]

\* void silt_dealloc(void *value)
silt_dealloc(s, value) == free(s, value)

(***************************************************************************)
(* Calls on Values, made within their preconditions                        *)
(***************************************************************************)
Call(op, dst, src) == [op |-> op, dst |-> dst, src |-> src]

\* the first handle not yet handed out
NextSlot == CHOOSE v \in Slots :
              values[v].alloc = "none" /\ \A w \in 1..(v - 1) : values[w].alloc # "none"

\* a buffer no Value is bound to
Unbound(r) ==
  \A v \in Slots : values[v].alloc = "none" \/ supplied[v].storage # r

\* the buffer the caller supplies next: buffers are handed out in address order
NextRegion == CHOOSE r \in Regions :
                Unbound(r) /\ \A q \in 1..(r - 1) : ~Unbound(q)

SameType(a, b) ==
  /\ values[a].typeMetadata = values[b].typeMetadata
  /\ values[a].witnessTable = values[b].witnessTable

\* what a call leaves behind
Ran(s) ==
  /\ values' = s.values
  /\ mem' = s.mem
  /\ counter' = s.counter
  /\ halted' = s.halted
  /\ trace' = s.trace
  /\ destroyCalls' = s.destroyCalls

\* the counter decrements a call made
Decrements(s) == IF s.counter < counter THEN counter - s.counter ELSE 0

\* silt_createValue(init, type): the caller supplies a buffer that already
\* holds a value (live) or one that is still uninitialised (fresh)
CreateValueOf(payloadChoices, liveChoices) ==
  /\ ~halted
  /\ \E v \in Slots : values[v].alloc = "none"
  /\ \E type \in Types, isLive \in liveChoices, p \in payloadChoices,
        indeterminate \in Regions \cup {0} :
       LET v == NextSlot
           r == NextRegion IN
       /\ values' = [values EXCEPT ![v] = silt_createValue(r, type, indeterminate)]
       /\ mem' = [mem EXCEPT ![r] =
                    IF ~isLive THEN @
                    ELSE IF type.table = TrivialTable THEN EncodePair(p[1], p[2])
                    ELSE WriteWord(@, HandleOf(v))]
       /\ counter' = IF isLive /\ type.table = CountedTable
                     THEN counter + 1 ELSE counter
       /\ life' = [life EXCEPT ![v] = IF isLive THEN "live" ELSE "fresh"]
       /\ expected' = [expected EXCEPT ![v] =
                         IF isLive /\ type.table = TrivialTable THEN p ELSE @]
       /\ supplied' = [supplied EXCEPT ![v] = Supplied(type, r)]
       /\ last' = Call("silt_createValue", v, 0)
       /\ ret' = Ptr(v)
       /\ trace' = <<>>
  /\ UNCHANGED <<halted, destroyTraps, calls, destroyCalls, route, decs>>
  /\ UNCHANGED <<boxVars, heapVars>>

CreateValue == CreateValueOf(PairPayloads, BOOLEAN)

\* new Value(type.metadata, type.table) meant for the buffer r: the
\* constructor takes no storage argument and leaves the member value as it
\* finds it
Construct ==
  /\ ~halted
  /\ \E v \in Slots : values[v].alloc = "none"
  /\ \E type \in Types, indeterminate \in Regions \cup {0} :
       LET v == NextSlot
           r == NextRegion IN
       /\ values' = [values EXCEPT ![v] =
                       Value_ctor(type.metadata, type.table, indeterminate)]
       /\ life' = [life EXCEPT ![v] = "raw"]
       /\ supplied' = [supplied EXCEPT ![v] = Supplied(type, r)]
       /\ last' = Call("Value", v, 0)
       /\ ret' = Ptr(v)
       /\ trace' = <<>>
  /\ UNCHANGED <<mem, counter, halted, destroyTraps, calls, destroyCalls,
                 expected, route, decs>>
  /\ UNCHANGED <<boxVars, heapVars>>

\* v->getTypeMetadata()
GetTypeMetadata ==
  \E v \in Slots :
    /\ ~halted
    /\ values[v].alloc = "heap"
    /\ last' = Call("getTypeMetadata", v, 0)
    /\ ret' = Ptr(DescriptorAddr(getTypeMetadata(v)))
    /\ trace' = <<>>
    /\ UNCHANGED <<halted, destroyTraps, calls, valueVars, boxVars, heapVars>>

\* v->getValue()
GetValue ==
  \E v \in Slots :
    /\ ~halted
    /\ values[v].alloc = "heap"
    /\ last' = Call("getValue", v, 0)
    /\ ret' = Ptr(getValue(v))
    /\ trace' = <<>>
    /\ UNCHANGED <<halted, destroyTraps, calls, valueVars, boxVars, heapVars>>

CanInit(dst, src) ==
  /\ ~halted
  /\ dst # src
  /\ values[dst].alloc = "heap" /\ values[src].alloc = "heap"
  /\ life[dst] = "fresh" /\ life[src] = "live"
  /\ SameType(dst, src)

\* dst->initializeWithCopy(src)
InitializeWithCopy ==
  \E dst \in Slots, src \in Slots :
    /\ CanInit(dst, src)
    /\ Ran(initializeWithCopy(Cur, dst, src))
    /\ life' = [life EXCEPT ![dst] = "live"]
    /\ expected' = [expected EXCEPT ![dst] = expected[src]]
    /\ route' = [route EXCEPT ![dst] = Append(route[src], "copy")]
    /\ last' = Call("initializeWithCopy", dst, src)
    /\ ret' = Void
    /\ UNCHANGED <<destroyTraps, calls, decs, supplied, boxVars, heapVars>>

\* silt_copyValue(dst, src)
SiltCopyValue ==
  \E dst \in Slots, src \in Slots :
    /\ CanInit(dst, src)
    /\ LET r == silt_copyValue(Cur, dst, src) IN Ran(r.state) /\ ret' = r.ret
    /\ life' = [life EXCEPT ![dst] = "live"]
    /\ expected' = [expected EXCEPT ![dst] = expected[src]]
    /\ route' = [route EXCEPT ![dst] = Append(route[src], "copy")]
    /\ last' = Call("silt_copyValue", dst, src)
    /\ UNCHANGED <<destroyTraps, calls, decs, supplied, boxVars, heapVars>>

\* dst->initializeWithTake(src)
InitializeWithTake ==
  \E dst \in Slots, src \in Slots :
    /\ CanInit(dst, src)
    /\ LET s == initializeWithTake(Cur, dst, src) IN
         /\ Ran(s)
         /\ decs' = [decs EXCEPT ![dst] = decs[src] + Decrements(s)]
    /\ life' = [life EXCEPT ![dst] = "live", ![src] = "dead"]
    /\ expected' = [expected EXCEPT ![dst] = expected[src]]
    /\ route' = [route EXCEPT ![dst] = Append(route[src], "initializeWithTake")]
    /\ last' = Call("initializeWithTake", dst, src)
    /\ ret' = Void
    /\ UNCHANGED <<destroyTraps, calls, supplied, boxVars, heapVars>>

\* silt_moveValue(dst, src)
SiltMoveValue ==
  \E dst \in Slots, src \in Slots :
    /\ CanInit(dst, src)
    /\ LET r == silt_moveValue(Cur, dst, src) IN
         /\ Ran(r.state) /\ ret' = r.ret
         /\ decs' = [decs EXCEPT ![dst] = decs[src] + Decrements(r.state)]
    /\ life' = [life EXCEPT ![dst] = "live", ![src] = "dead"]
    /\ expected' = [expected EXCEPT ![dst] = expected[src]]
    /\ route' = [route EXCEPT ![dst] = Append(route[src], "silt_moveValue")]
    /\ last' = Call("silt_moveValue", dst, src)
    /\ UNCHANGED <<destroyTraps, calls, supplied, boxVars, heapVars>>

CanDestroy(v) == ~halted /\ values[v].alloc = "heap" /\ life[v] = "live"

\* v->destroy()
Destroy ==
  \E v \in Slots :
    /\ CanDestroy(v)
    /\ LET s == Value_destroy(Cur, v) IN
         /\ Ran(s)
         /\ decs' = [decs EXCEPT ![v] = @ + Decrements(s)]
    /\ life' = [life EXCEPT ![v] = "dead"]
    /\ last' = Call("destroy", v, 0)
    /\ ret' = Void
    /\ UNCHANGED <<destroyTraps, calls, expected, route, supplied, boxVars, heapVars>>

\* silt_destroyValue(v)
SiltDestroyValue ==
  \E v \in Slots :
    /\ CanDestroy(v)
    /\ LET r == silt_destroyValue(Cur, v) IN
         /\ Ran(r.state) /\ ret' = r.ret
         /\ decs' = [decs EXCEPT ![v] = @ + Decrements(r.state)]
    /\ life' = [life EXCEPT ![v] = "dead"]
    /\ last' = Call("silt_destroyValue", v, 0)
    /\ UNCHANGED <<destroyTraps, calls, expected, route, supplied, boxVars, heapVars>>

(***************************************************************************)
(* Calls on Values, made whatever their lifecycle state and their types    *)
(***************************************************************************)
CanCall(v) == ~halted /\ calls < MaxCalls /\ values[v].alloc = "heap"

\* src->copy(dst) and dst->initializeWithCopy(src)
UncheckedCopy ==
  \E dst \in Slots, src \in Slots, api \in {"copy", "initializeWithCopy"} :
    /\ dst # src /\ CanCall(dst) /\ CanCall(src)
    /\ LET s == IF api = "copy" THEN Value_copy(Cur, src, dst)
                ELSE initializeWithCopy(Cur, dst, src) IN
         /\ Ran(s)
         /\ ret' = IF s.halted THEN NoReturn ELSE Void
    /\ calls' = calls + 1
    /\ life' = [life EXCEPT ![dst] = "live"]
    /\ last' = Call(api, dst, src)
    /\ UNCHANGED <<destroyTraps, expected, route, decs, supplied, boxVars, heapVars>>

\* src->move(dst) and dst->initializeWithTake(src)
UncheckedMove ==
  \E dst \in Slots, src \in Slots, api \in {"move", "initializeWithTake"} :
    /\ dst # src /\ CanCall(dst) /\ CanCall(src)
    /\ LET s == IF api = "move" THEN Value_move(Cur, src, dst)
                ELSE initializeWithTake(Cur, dst, src) IN
         /\ Ran(s)
         /\ ret' = IF s.halted THEN NoReturn ELSE Void
    /\ calls' = calls + 1
    /\ life' = [life EXCEPT ![dst] = "live", ![src] = "dead"]
    /\ last' = Call(api, dst, src)
    /\ UNCHANGED <<destroyTraps, expected, route, decs, supplied, boxVars, heapVars>>

\* v->destroy()
UncheckedDestroy ==
  \E v \in Slots :
    /\ CanCall(v)
    /\ LET s == Value_destroy(Cur, v) IN
         /\ Ran(s)
         /\ ret' = IF s.halted THEN NoReturn ELSE Void
    /\ calls' = calls + 1
    /\ life' = [life EXCEPT ![v] = "dead"]
    /\ last' = Call("destroy", v, v)
    /\ UNCHANGED <<destroyTraps, expected, route, decs, supplied, boxVars, heapVars>>

(***************************************************************************)
(* Calls on ManagedObjects, made within their preconditions                *)
(***************************************************************************)
RanBox(s) ==
  /\ payloads' = s.payloads
  /\ trace' = s.trace
  /\ halted' = s.halted

\* a box the caller holds: one it constructed, or the acquired empty box
Held(b) ==
  /\ boxLife[b] = "live"
  /\ b \in BoxSlots \/ \E i \in 1..Len(acquired) : acquired[i] = b

\* ManagedObject(copyImpl, destroyImpl, metadata, initialValue), over a value
\* the caller has just allocated
BoxNew ==
  /\ ~halted
  /\ \E b \in BoxSlots : boxes[b].state = "none"
  /\ \E copyImpl \in {"freshCopy", "aliasCopy"} :
       LET b == NextBox
           p == NewPayload(CurBox) IN
       /\ boxes' = [boxes EXCEPT ![b] =
                      ManagedObject_ctor(copyImpl, "release", "Handle", p)]
       /\ payloads' = [payloads EXCEPT ![p].exists = TRUE]
       /\ boxLife' = [boxLife EXCEPT ![b] = "live"]
       /\ last' = Call("ManagedObject", b, 0)
  /\ ret' = Void
  /\ trace' = <<>>
  /\ UNCHANGED <<halted, destroyTraps, calls, acquired, origin, valueVars, heapVars>>

\* b.copy(), the result stored at the next free address
BoxCopy ==
  /\ ~halted
  /\ \E n \in BoxSlots : boxes[n].state = "none"
  /\ \E b \in BoxAddrs :
       LET n == NextBox
           r == ManagedObject_copy(CurBox, b) IN
       /\ Held(b)
       /\ RanBox(r.state)
       /\ boxes' = IF r.state.halted THEN boxes
                   ELSE [boxes EXCEPT ![n] = r.result]
       /\ boxLife' = IF r.state.halted THEN boxLife
                     ELSE [boxLife EXCEPT ![n] = "live"]
       /\ origin' = IF r.state.halted THEN origin ELSE [origin EXCEPT ![n] = b]
       /\ last' = Call("ManagedObject_copy", n, b)
       /\ ret' = IF r.state.halted THEN NoReturn ELSE Ptr(n)
  /\ UNCHANGED <<destroyTraps, calls, acquired, valueVars, heapVars>>

\* b.destroy()
BoxDestroy ==
  /\ ~halted
  /\ \E b \in BoxAddrs :
       LET s == ManagedObject_destroy(CurBox, b) IN
       /\ Held(b)
       /\ RanBox(s)
       /\ boxLife' = [boxLife EXCEPT ![b] = "dead"]
       /\ last' = Call("ManagedObject_destroy", b, 0)
       /\ ret' = IF s.halted THEN NoReturn ELSE Void
  /\ UNCHANGED <<boxes, destroyTraps, calls, acquired, origin, valueVars, heapVars>>

\* silt_allocEmptyBox()
AllocEmptyBox ==
  /\ ~halted
  /\ Len(acquired) < MaxAcquire
  /\ LET r == silt_allocEmptyBox(boxes) IN
       /\ boxes' = r.boxes
       /\ ret' = Ptr(r.ret)
       /\ acquired' = Append(acquired, r.ret)
  /\ last' = Call("silt_allocEmptyBox", 0, 0)
  /\ trace' = <<>>
  /\ UNCHANGED <<payloads, boxLife, origin, halted, destroyTraps, calls, valueVars,
                 heapVars>>

(***************************************************************************)
(* Calls on the heap                                                       *)
(***************************************************************************)
AllocSizes == {0, 8, 16}

RanHeap(s) ==
  /\ heap' = s.heap
  /\ stderr' = s.stderr
  /\ halted' = s.halted

\* silt_alloc(bytes): malloc hands out a block not in use, or fails
SiltAlloc ==
  /\ ~halted
  /\ \E bytes \in AllocSizes,
        ptr \in {NullPtr} \cup {b \in Blocks : ~heap[b].allocated} :
       LET r == silt_alloc(CurHeap, bytes, ptr) IN
       /\ RanHeap(r.state)
       /\ ret' = r.ret
       /\ last' = Call("silt_alloc", bytes, ptr)
  /\ trace' = <<>>
  /\ UNCHANGED <<destroyTraps, calls, valueVars, boxVars>>

\* silt_dealloc(value), value a pointer silt_alloc returned
SiltDealloc ==
  /\ ~halted
  /\ \E value \in {b \in Blocks : heap[b].allocated} :
       /\ RanHeap(silt_dealloc(CurHeap, value))
       /\ last' = Call("silt_dealloc", value, 0)
  /\ ret' = Void
  /\ trace' = <<>>
  /\ UNCHANGED <<destroyTraps, calls, valueVars, boxVars>>

(***************************************************************************)
(* Specifications                                                          *)
(***************************************************************************)
Init ==
  /\ values = [v \in Slots |-> NoValue]
  /\ mem = [r \in Regions |-> Garbage]
  /\ counter = 0
  /\ halted = FALSE
  /\ destroyTraps \in BOOLEAN
  /\ trace = <<>>
  /\ destroyCalls = [v \in Slots |-> 0]
  /\ last = Call("none", 0, 0)
  /\ ret = NoReturn
  /\ life = [v \in Slots |-> "none"]
  /\ expected = [v \in Slots |-> <<0, 0>>]
  /\ route = [v \in Slots |-> <<>>]
  /\ decs = [v \in Slots |-> 0]
  /\ supplied = [v \in Slots |-> NotSupplied]
  /\ calls = 0
  /\ boxes = [b \in BoxAddrs |->
                IF b = EmptyBoxMetadataAddr THEN EmptyBoxStorageMetadata
                ELSE IF b = EmptyBoxStorageAddr THEN EmptyBoxStorage
                ELSE NoBox]
  /\ payloads = [p \in PayloadIds |-> [exists |-> FALSE, destroys |-> 0]]
  /\ boxLife = [b \in BoxAddrs |-> IF b \in StaticBoxes THEN "live" ELSE "none"]
  /\ acquired = <<>>
  /\ origin = [b \in BoxAddrs |-> 0]
  /\ heap = [b \in Blocks |-> [allocated |-> FALSE, size |-> 0]]
  /\ stderr = <<>>

NextValue ==
  \/ CreateValue
  \/ InitializeWithCopy
  \/ SiltCopyValue
  \/ InitializeWithTake
  \/ SiltMoveValue
  \/ Destroy
  \/ SiltDestroyValue

SpecValue == Init /\ [][NextValue]_vars

NextBoxed ==
  \/ BoxNew
  \/ BoxCopy
  \/ BoxDestroy
  \/ AllocEmptyBox

SpecBox == Init /\ [][NextBoxed]_vars

NextHeap ==
  \/ SiltAlloc
  \/ SiltDealloc

SpecHeap == Init /\ [][NextHeap]_vars


\* construct, copy and destroy only
NextCopy ==
  \/ CreateValue
  \/ InitializeWithCopy
  \/ SiltCopyValue
  \/ Destroy
  \/ SiltDestroyValue

SpecCopy == Init /\ [][NextCopy]_vars

\* the calls of class Value, over buffers of one payload
CreateOne == CreateValueOf({<<3, 4>>}, BOOLEAN)

NextAccess ==
  \/ CreateOne
  \/ InitializeWithCopy
  \/ InitializeWithTake
  \/ Destroy
  \/ GetTypeMetadata

SpecAccess == Init /\ [][NextAccess]_vars

\* construction with and without a buffer, and the calls a Value is the
\* source of
NextConstruct ==
  \/ CreateOne
  \/ Construct
  \/ InitializeWithCopy
  \/ InitializeWithTake
  \/ GetValue

SpecConstruct == Init /\ [][NextConstruct]_vars

\* up to NumUnchecked live Values of one payload, and up to MaxCalls calls on
\* them that no precondition restricts
CreateLive ==
  /\ \E v \in 1..NumUnchecked : values[v].alloc = "none"
  /\ CreateValueOf({<<3, 4>>}, {TRUE})

NextUnchecked ==
  \/ CreateLive
  \/ UncheckedCopy
  \/ UncheckedMove
  \/ UncheckedDestroy

SpecUnchecked == Init /\ [][NextUnchecked]_vars

(***************************************************************************)
(* Properties of Values                                                    *)
(***************************************************************************)
CopyCalls == {"initializeWithCopy", "silt_copyValue"}
MoveCalls == {"initializeWithTake", "silt_moveValue"}

\* the invocations of one witness-table slot in the last call
Invocations(slot) == {i \in 1..Len(trace) : trace[i].op = slot}
InvocationsOn(slot, v) == {i \in Invocations(slot) : trace[i].dst = v}

IsTrivial(v) == values[v].witnessTable = TrivialTable
IsCounted(v) == values[v].witnessTable = CountedTable

\* C1: moving a live Value into a fresh destination with initializeWithTake
\* invokes the type's move once, its destroy on the source once, and its copy
\* never, for the trivial table as for a custom one.
C1_TakeInvokesMoveOnceDestroyOnce ==
  (last.op = "initializeWithTake" /\ ~halted) =>
     /\ Cardinality(Invocations("move")) = 1
     /\ Cardinality(InvocationsOn("destroy", last.src)) = 1
     /\ Cardinality(Invocations("copy")) = 0

\* C2: for the counted-handle type, a payload moved A -> B -> C with
\* initializeWithTake has cost no counter decrement while it is live in B or
\* in C, and exactly one once C has been destroyed.
TakeOnce == <<"initializeWithTake">>
TakeTwice == <<"initializeWithTake", "initializeWithTake">>
C2_CounterDecrementedOnceAtFinalDestroy ==
  \A v \in Slots :
    (values[v].alloc # "none" /\ IsCounted(v) /\ ~halted) =>
       /\ (route[v] \in {TakeOnce, TakeTwice} /\ life[v] = "live") => decs[v] = 0
       /\ (route[v] = TakeTwice /\ life[v] = "dead"
             /\ last.op \in {"destroy", "silt_destroyValue"}
             /\ last.dst = v) => decs[v] = 1

\* C3: with Values constructed, copied into fresh destinations and destroyed
\* once each, every destroyed instance has had exactly one destroy invocation,
\* every other instance none, and a copy invokes destroy zero times.
C3_OneDestroyPerInstance ==
  /\ \A v \in Slots :
       destroyCalls[v] = IF life[v] = "dead" THEN 1 ELSE 0
  /\ last.op \in CopyCalls => Invocations("destroy") = {}

\* a trivial Value and two copies of it (N = 2), all three destroyed
C3_Witness ==
  /\ ~halted
  /\ \E a \in Slots, b \in Slots, c \in Slots :
       /\ a # b /\ b # c /\ a # c
       /\ IsTrivial(a) /\ SameType(a, b) /\ SameType(a, c)
       /\ route[a] = <<>>
       /\ route[b] = <<"copy">>
       /\ route[c] = <<"copy">>
       /\ life[a] = "dead" /\ life[b] = "dead" /\ life[c] = "dead"
       /\ destroyCalls[a] + destroyCalls[b] + destroyCalls[c] = 3

\* a Value that has been given a payload and on which destroy has not run
Owner(v) ==
  /\ values[v].alloc = "heap"
  /\ life[v] \in {"live", "dead"}
  /\ destroyCalls[v] = 0

\* two Values hold the same handle word in their storage
SameHandle(v, w) ==
  \A i \in 1..WordLen : mem[values[v].value][i] = mem[values[w].value][i]

\* C4: a storage region, and a resource it references, has at most one owner;
\* after a move the source is terminated and the destination is the sole owner.
C4_SingleOwner ==
  ~halted =>
    /\ \A v \in Slots, w \in Slots :
         (v # w /\ Owner(v) /\ Owner(w)) =>
            /\ values[v].value # values[w].value
            /\ (IsCounted(v) /\ IsCounted(w)) => ~SameHandle(v, w)
    /\ last.op \in MoveCalls => ~Owner(last.src)

\* C5: a copy leaves the source Value, its storage, descriptor and table as
\* they were and writes the destination storage only; a trivially copied pair
\* still decodes to what its source held, whatever is destroyed afterwards.
IsCopyStep ==
  /\ last'.op \in CopyCalls
  /\ life[last'.dst] = "fresh"
  /\ life'[last'.dst] = "live"

C5_PairsIntact ==
  \A v \in Slots :
    (values[v].alloc # "none" /\ IsTrivial(v) /\ life[v] \in {"live", "dead"})
      => HoldsPair(mem[values[v].value], expected[v])

C5_CopyFrame ==
  IsCopyStep =>
    /\ values' = values
    /\ \A r \in Regions : r # values[last'.dst].value => mem'[r] = mem[r]
    /\ destroyCalls'[last'.src] = destroyCalls[last'.src]
    /\ life'[last'.src] = "live"

C5_CopyLeavesSourceIntact == []C5_PairsIntact /\ [][C5_CopyFrame]_vars

\* the copy of a (3, 4) pair, after its original has been destroyed
C5_Witness ==
  /\ ~halted
  /\ \E o \in Slots, c \in Slots :
       /\ o # c /\ IsTrivial(o) /\ IsTrivial(c)
       /\ values[o].typeMetadata.sizeInBytes = 16
       /\ expected[o] = <<3, 4>> /\ life[o] = "dead" /\ destroyCalls[o] = 1
       /\ route[o] = <<>>
       /\ life[c] = "live" /\ route[c] = <<"copy">>
       /\ last.op \in {"destroy", "silt_destroyValue"} /\ last.dst = o
       /\ HoldsPair(mem[values[c].value], <<3, 4>>)
       /\ values[o].value # values[c].value

\* C6: silt_moveValue and silt_copyValue make the invocations, and reach the
\* state, of initializeWithTake and initializeWithCopy, and return dst.
C6_BoundaryMatchesValueLevel ==
  \A dst \in Slots, src \in Slots :
    CanInit(dst, src) =>
      /\ silt_copyValue(Cur, dst, src).state = initializeWithCopy(Cur, dst, src)
      /\ silt_moveValue(Cur, dst, src).state = initializeWithTake(Cur, dst, src)
      /\ ~silt_copyValue(Cur, dst, src).state.halted
           => silt_copyValue(Cur, dst, src).ret = Ptr(dst)
      /\ ~silt_moveValue(Cur, dst, src).state.halted
           => silt_moveValue(Cur, dst, src).ret = Ptr(dst)


(***************************************************************************)
(* Properties of the allocator                                             *)
(***************************************************************************)
\* C7: silt_alloc never hands NULL to its caller: when malloc fails, the
\* diagnostic is written, the process terminates and silt_alloc does not
\* return; when malloc succeeds, silt_alloc returns the block of that size.
C7_AllocNeverReturnsNull ==
  /\ ret.kind = "ptr" => ret.val # NullPtr
  /\ last.op = "silt_alloc" =>
       IF last.src = NullPtr
       THEN /\ halted
            /\ ret = NoReturn
            /\ Len(stderr) > 0 /\ stderr[1] # ""
       ELSE /\ ~halted
            /\ ret = Ptr(last.src)
            /\ heap[last.src] = [allocated |-> TRUE, size |-> last.dst]

\* an allocation that failed while another block was in use
C7_Witness ==
  /\ last.op = "silt_alloc" /\ last.src = NullPtr /\ last.dst > 0
  /\ halted /\ ret = NoReturn
  /\ stderr[1] = "silt_alloc failed to allocate memory"
  /\ \E b \in Blocks : heap[b].allocated

(***************************************************************************)
(* Properties of ManagedObjects                                            *)
(***************************************************************************)
\* C8: every call of silt_allocEmptyBox returns the one handle of the
\* singleton, and a call changes no object, value or heap block.
C8_SameHandle ==
  /\ \A i \in 1..Len(acquired), j \in 1..Len(acquired) : acquired[i] = acquired[j]
  /\ \A i \in 1..Len(acquired) : acquired[i] = EmptyBoxStorageAddr
  /\ last.op = "silt_allocEmptyBox" => ret = Ptr(EmptyBoxStorageAddr)

C8_AcquireFrame ==
  last'.op = "silt_allocEmptyBox" =>
    UNCHANGED <<boxes, payloads, boxLife, halted, valueVars, heapVars>>

C8_EmptyBoxIsSingleton == []C8_SameHandle /\ [][C8_AcquireFrame]_vars

\* two acquisitions with the construction of a box and a copy in between
C8_Witness ==
  /\ Len(acquired) = 2 /\ acquired[1] = acquired[2]
  /\ last.op = "silt_allocEmptyBox"
  /\ \E b \in BoxSlots : boxes[b].state = "object" /\ origin[b] # 0

\* C9: copy() calls copyImpl once, on the receiver's value, and destroyImpl
\* never; the new object has the receiver's closures and metadata and owns
\* what copyImpl returned; the receiver and every other object are unchanged.
C9_CopyResult ==
  (last.op = "ManagedObject_copy" /\ ~halted) =>
     /\ trace = << [op |-> "copyImpl", dst |-> boxes[last.dst].value,
                    src |-> boxes[last.src].value] >>
     /\ boxes[last.dst].state = "object"
     /\ boxes[last.dst].copyImpl = boxes[last.src].copyImpl
     /\ boxes[last.dst].destroyImpl = boxes[last.src].destroyImpl
     /\ boxes[last.dst].metadata = boxes[last.src].metadata

C9_CopyFrame ==
  (last'.op = "ManagedObject_copy" /\ boxLife[last'.dst] = "none") =>
     /\ \A b \in BoxAddrs : b # last'.dst => boxes'[b] = boxes[b]
     /\ \A p \in PayloadIds : payloads'[p].destroys = payloads[p].destroys
     /\ boxLife'[last'.src] = boxLife[last'.src]

IsFresh(b) == boxes[b].state = "object" /\ boxes[b].copyImpl = "freshCopy"

\* C10: among boxes whose copyImpl returns a fresh value, destroyImpl has run
\* exactly once on the value of every destroyed box and never on the value of
\* a box not destroyed, and no two boxes own the same value.
C10_OneDestroyPerBox ==
  /\ \A b \in BoxSlots :
       IsFresh(b) =>
         payloads[boxes[b].value].destroys = IF boxLife[b] = "dead" THEN 1 ELSE 0
  /\ \A b \in BoxSlots, c \in BoxSlots :
       (b # c /\ IsFresh(b) /\ IsFresh(c)) => boxes[b].value # boxes[c].value

\* a box, a copy of it and a copy of that copy, each destroyed
C10_Witness ==
  \E a \in BoxSlots, b \in BoxSlots, c \in BoxSlots :
    /\ IsFresh(a) /\ origin[a] = 0 /\ origin[b] = a /\ origin[c] = b
    /\ boxLife[a] = "dead" /\ boxLife[b] = "dead" /\ boxLife[c] = "dead"
    /\ payloads[boxes[a].value].destroys = 1
    /\ payloads[boxes[b].value].destroys = 1
    /\ payloads[boxes[c].value].destroys = 1

(***************************************************************************)
(* silt_destroyValue: destroy, then release                                *)
(***************************************************************************)
\* the trace entry of the destroy witness of v run on v
DestroyEntry(v) ==
  [op |-> "destroy", dst |-> v, src |-> v, fn |-> values[v].witnessTable.destroy]
DeleteEntry(v) == [op |-> "delete", dst |-> v, src |-> v, fn |-> "delete"]

C11_Sequence ==
  last.op = "silt_destroyValue" =>
    LET v == last.dst IN
    IF halted
    THEN trace = <<DestroyEntry(v)>> /\ values[v].alloc = "heap"
    ELSE /\ trace = <<DestroyEntry(v), DeleteEntry(v)>>
         /\ values[v].alloc = "deleted"
         /\ ret = Void

C11_Frame ==
  (last'.op = "silt_destroyValue" /\ life[last'.dst] = "live") =>
    /\ mem' = mem
    /\ \A w \in Slots \ {last'.dst} :
         values'[w] = values[w] /\ destroyCalls'[w] = destroyCalls[w]

C12_StorageIsSupplied ==
  /\ \A v \in Slots :
       values[v].alloc # "none" => getValue(v) = supplied[v].storage
  /\ \A b \in Blocks : ~heap[b].allocated

Accessors == {"getTypeMetadata", "getValue"}

C15_Bound ==
  \A v \in Slots :
    values[v].alloc # "none" =>
      /\ getTypeMetadata(v) = supplied[v].typeMetadata
      /\ getWitnessTable(v) = supplied[v].witnessTable

C15_Accessor ==
  last.op = "getTypeMetadata" =>
    ret = Ptr(DescriptorAddr(supplied[last.dst].typeMetadata))

C15_Frame ==
  /\ \A v \in Slots :
       values[v].alloc # "none" =>
         /\ values'[v].typeMetadata = values[v].typeMetadata
         /\ values'[v].witnessTable = values[v].witnessTable
  /\ (last'.op \in Accessors /\ <<last', ret'>> # <<last, ret>>) =>
       UNCHANGED <<values, mem, counter, destroyCalls, halted>>

\* C15: the descriptor and the table a Value references are the ones given
\* at its construction and no construct, copy, move, destroy or accessor call
\* changes them; getTypeMetadata returns the descriptor bound at construction
\* and an accessor call changes no state.
C15_DescriptorsReadOnly ==
  [](C15_Bound /\ C15_Accessor) /\ [][C15_Frame]_vars

C15_Witness ==
  /\ last.op = "getTypeMetadata"
  /\ ret = Ptr(DescriptorAddr(HandleMetadata))
  /\ life[last.dst] = "dead"
  /\ destroyCalls[last.dst] = 1
  /\ \E w \in Slots : life[w] = "live" /\ Len(route[w]) > 0

(***************************************************************************)
(* The trivial witnesses                                                   *)
(***************************************************************************)
\* the calls that dispatch to exactly one slot of the source's table
FlatCalls == CopyCalls \cup {"silt_moveValue"}

\* C13: a trivial copy and a trivial move make the first sizeInBytes bytes of
\* the destination equal to the source's, leave the source's bytes as they
\* were and invoke nothing else; a trivial destroy changes nothing, so the
\* process runs on with the bytes in place.
C13_TrivialWitnessesAreFlat ==
  /\ (last.op \in FlatCalls /\ IsTrivial(last.src)) =>
       LET d == values[last.dst].value
           sp == values[last.src].value
           size == values[last.dst].typeMetadata.sizeInBytes
       IN /\ ~halted
          /\ \A i \in 1..size : mem[d][i] = mem[sp][i]
          /\ HoldsPair(mem[sp], expected[last.src])
          /\ Len(trace) = 1
  /\ (last.op = "destroy" /\ IsTrivial(last.dst)) =>
       /\ ~halted
       /\ HoldsPair(mem[values[last.dst].value], expected[last.dst])
       /\ Len(trace) = 1

(***************************************************************************)
(* silt::crash                                                             *)
(***************************************************************************)
C14_Crashed ==
  stderr # <<>> =>
    /\ halted
    /\ stderr = <<"silt_alloc failed to allocate memory", "\n">>
    /\ ret = NoReturn

C14_NoStepAfter == ~halted /\ (halted' => (ret' = NoReturn /\ stderr' # <<>>))

\* C14: silt::crash never returns: once it is called the message and a
\* newline are on the diagnostic stream and the process has terminated; the
\* caller's return is never executed and no further step is taken.
C14_CrashNeverReturns == []C14_Crashed /\ [][C14_NoStepAfter]_vars

\* a crash on the first allocation, with nothing else on the heap
C14_Witness ==
  /\ halted
  /\ last = Call("silt_alloc", 8, NullPtr)
  /\ stderr = <<"silt_alloc failed to allocate memory", "\n">>
  /\ ret = NoReturn
  /\ \A b \in Blocks : ~heap[b].allocated

(***************************************************************************)
(* The empty box under destroy                                             *)
(***************************************************************************)
\* C17: destroy() on the handle silt_allocEmptyBox returned is a no-op: it
\* invokes no closure and changes no state, the process runs on, and every
\* acquire, before and after, returns the one singleton.
C17_EmptyBoxDestroyIsNoOp ==
  /\ (last.op = "ManagedObject_destroy" /\ last.dst = EmptyBoxStorageAddr) =>
       /\ ~halted
       /\ ret = Void
       /\ trace = <<>>
       /\ \A p \in PayloadIds : payloads[p].destroys = 0 \/ payloads[p].exists
  /\ last.op = "silt_allocEmptyBox" => ret = Ptr(EmptyBoxStorageAddr)

(***************************************************************************)
(* Calls outside the preconditions                                         *)
(***************************************************************************)
\* the witness-table slot a call of class Value dispatches to first
SlotOf(op) ==
  CASE op \in {"copy", "initializeWithCopy"} -> "copy"
    [] op \in {"move", "initializeWithTake"} -> "move"
    [] op = "destroy" -> "destroy"

\* the trace entry of the slot of src's table, run with (dst, src)
Dispatched(slot, dst, src) ==
  [op |-> slot, dst |-> dst, src |-> src, fn |-> values[src].witnessTable[slot]]

C16_Step ==
  (calls' = calls + 1 /\ life[last'.src] = "dead") =>
    /\ Len(trace') >= 1
    /\ trace'[1] = Dispatched(SlotOf(last'.op), last'.dst, last'.src)
    /\ values' = values
    /\ stderr' = stderr
    /\ ret' = IF halted' THEN NoReturn ELSE Void
    /\ halted' =>
         /\ destroyTraps
         /\ \E i \in 1..Len(trace') : trace'[i].fn = "trivialDestroy"

C16_DestroyStep ==
  (calls' = calls + 1 /\ last'.op = "destroy") => values' = values

\* C16: a Value carries no record of having been destroyed: destroy leaves
\* the Value object as it was, and destroy, copy or move called on a Value
\* that is already destroyed dispatches to the operation of its table again,
\* writes nothing to the diagnostic stream and yields no error value; the
\* process ends only where the trivial destroy witness traps.
C16_NoEnforcedTermination == [][C16_Step /\ C16_DestroyStep]_vars

\* a counted Value destroyed twice
C16_Witness ==
  /\ last.op = "destroy"
  /\ destroyCalls[last.dst] = 2
  /\ IsCounted(last.dst)
  /\ trace = <<Dispatched("destroy", last.dst, last.dst)>>
  /\ ~halted /\ ret = Void /\ stderr = <<>>

\* C18: every call dispatches through the table of the Value it is made on:
\* copy and initializeWithCopy run exactly one operation, the copy slot of
\* the source's table with (destination, source); move and initializeWithTake
\* run first the move slot of the source's table with (destination, source);
\* destroy runs the destroy slot of the destroyed Value's table; no entry of
\* a call comes from the table of the destination.
C18_DispatchBySource ==
  /\ \A i \in 1..Len(trace) :
       trace[i].op \in {"copy", "move", "destroy"} =>
         trace[i].fn = values[trace[i].src].witnessTable[trace[i].op]
  /\ last.op \in {"copy", "initializeWithCopy"} =>
       trace = <<Dispatched("copy", last.dst, last.src)>>
  /\ last.op \in {"move", "initializeWithTake"} =>
       /\ Len(trace) >= 1
       /\ trace[1] = Dispatched("move", last.dst, last.src)
  /\ last.op = "destroy" =>
       trace = <<Dispatched("destroy", last.dst, last.dst)>>

\* a counted source copied into a destination of the trivial table
C18_Witness ==
  /\ last.op = "initializeWithCopy"
  /\ IsCounted(last.src) /\ IsTrivial(last.dst)
  /\ trace = <<[op |-> "copy", dst |-> last.dst, src |-> last.src,
                fn |-> "countedCopy"]>>

====
